---- MODULE Spec2Model ----
(***************************************************************************)
(* Model of src/src/clean_duplicated_and_nan.py: the cleaning pipeline     *)
(* main() (ensure_directories, load_dataset, drop_duplicates,              *)
(* compute_missing, save_clean_csv, write_report) over a small file        *)
(* system, and the same functions called directly by a caller.             *)
(*                                                                         *)
(* A cell of a DataFrame is <<>> (NaN, the missing marker) or <<s>> (the   *)
(* string s).  A DataFrame is [columns, rows].  A file is a record with a  *)
(* kind: "absent", "csv" (header and rows of raw cell texts), "text" (the  *)
(* lines that write_text joins with "\n") or "partial" (a write that       *)
(* failed after the file was opened for writing).                          *)
(***************************************************************************)
EXTENDS Integers, Sequences, FiniteSets, TLC

VARIABLES
    pc,              \* position of main(): idle, ensured, loaded, deduped,
                     \* analyzed, saved, done, error
    run,             \* number of invocations of main() started so far
    rawFile,         \* content of RAW_CSV_PATH (never written by the program)
    dirs,            \* the directories that exist
    files,           \* content of each output path
    df_raw,          \* main's local df_raw
    raw_shape,       \* main's locals (raw_rows, raw_cols)
    df_clean,        \* main's local df_clean
    dup_removed,     \* main's local dup_removed
    total_missing,   \* main's local total_missing
    missing_by_col,  \* main's local missing_by_col
    summary,         \* main's local summary
    trace,           \* history: the stages invoked by the current run, in order
    failed,          \* history: the stage that raised in the current run, or ""
    wrote,           \* history: the output paths the current run has written
    startFiles,      \* history: the output files as the current run found them
    outputs,         \* history: the outputs left by each successful run
    call             \* the last direct call of a function of the module, while
                     \* its effect stands

vars == <<pc, run, rawFile, dirs, files, df_raw, raw_shape, df_clean,
          dup_removed, total_missing, missing_by_col, summary, trace, failed,
          wrote, startFiles, outputs, call>>

locals == <<df_raw, raw_shape, df_clean, dup_removed, total_missing,
            missing_by_col, summary>>

-----------------------------------------------------------------------------
(* Bounds of the model *)

MaxRows == 3
MaxRuns == 3

-----------------------------------------------------------------------------
(* Paths and configuration *)

PROCESSED_DIR == "data/processed"
CLEAN_CSV_PATH == <<PROCESSED_DIR, "project_risk_clean.csv">>
INFO_DIR == "info"
REPORT_PATH == <<INFO_DIR, "clean_report.txt">>

Paths == {CLEAN_CSV_PATH, REPORT_PATH}
Parent(path) == path[1]

EXTRA_NA_VALUES == {"", " ", "NA", "N/A", "NULL", "Null", "null"}

\* The tokens pandas.read_csv reads as NaN when keep_default_na is True.
PandasDefaultNa ==
    {"", "#N/A", "#N/A N/A", "#NA", "-1.#IND", "-1.#QNAN", "-NaN", "-nan",
     "1.#IND", "1.#QNAN", "<NA>", "N/A", "NA", "NULL", "NaN", "None", "n/a",
     "nan", "null"}

-----------------------------------------------------------------------------
(* Values *)

NaN == <<>>
Str(s) == <<s>>
isna(cell) == cell = NaN

NoFile == [kind |-> "absent"]
PartialFile == [kind |-> "partial"]
NoDf == [columns |-> <<>>, rows |-> <<>>]
NoSummary == [built |-> FALSE]
NoCall == [fn |-> "none"]

\* str comparison in Python is by code point: the code points of the column
\* names the model uses.
Ord ==
    [alpha |-> <<97, 108, 112, 104, 97>>,
     b     |-> <<98>>,
     ab    |-> <<97, 98>>,
     Zeta  |-> <<90, 101, 116, 97>>]

LexLess(s, t) ==
    \E k \in 1..(Len(s) + 1) :
        /\ k <= Len(t)
        /\ \A i \in 1..(k - 1) : s[i] = t[i]
        /\ (k = Len(s) + 1 \/ s[k] < t[k])

StrLess(a, b) == LexLess(Ord[a], Ord[b])

Max(S) == CHOOSE m \in S : \A x \in S : x <= m

RECURSIVE SumSeq(_)
SumSeq(s) == IF s = <<>> THEN 0 ELSE Head(s) + SumSeq(Tail(s))

RECURSIVE Spaces(_)
Spaces(n) == IF n <= 0 THEN "" ELSE " " \o Spaces(n - 1)

-----------------------------------------------------------------------------
(* ensure_directories: mkdir(parents=True, exist_ok=True) for each path in *)
(* turn; a mkdir that raises ends the loop, the earlier ones stay created. *)
(* n is the number of mkdir calls that succeed.                            *)

ensure_directories(paths, D, n) ==
    [ok   |-> n = Len(paths),
     dirs |-> D \cup {paths[i] : i \in 1..n}]

-----------------------------------------------------------------------------
(* load_dataset: pd.read_csv(path, na_values=set(extra_na or []),          *)
(* keep_default_na=True).  A cell is NaN iff its raw text is one of the    *)
(* NA tokens (exact match); the header gives the columns.                  *)

NaTokensNoDefaults(extra_na) == extra_na

NaTokens(extra_na) == extra_na \cup PandasDefaultNa

ParseCell(text, extra_na) ==
    IF text \in NaTokens(extra_na) THEN NaN ELSE Str(text)

load_dataset(file, extra_na) ==
    [columns |-> file.header,
     rows    |-> [i \in 1..Len(file.rows) |->
                    [j \in 1..Len(file.rows[i]) |->
                        ParseCell(file.rows[i][j], extra_na)]]]

-----------------------------------------------------------------------------
(* drop_duplicates: df.drop_duplicates(keep="first", ignore_index=True).   *)
(* pandas compares rows cell by cell with NaN equal to NaN.                *)

CellsEqualNanDistinct(a, b) == ~isna(a) /\ ~isna(b) /\ a = b

CellsEqual(a, b) == (isna(a) /\ isna(b)) \/ (~isna(a) /\ ~isna(b) /\ a = b)

RowsEqual(r1, r2) ==
    /\ Len(r1) = Len(r2)
    /\ \A j \in 1..Len(r1) : CellsEqual(r1[j], r2[j])

RECURSIVE KeepFirstFrom(_, _)
KeepFirstFrom(rows, seen) ==
    IF rows = <<>> THEN <<>>
    ELSE IF \E i \in 1..Len(seen) : RowsEqual(seen[i], Head(rows))
         THEN KeepFirstFrom(Tail(rows), seen)
         ELSE <<Head(rows)>> \o KeepFirstFrom(Tail(rows), Append(seen, Head(rows)))

DedupRows(rows) == KeepFirstFrom(rows, <<>>)

RemovedCountOffByOne(before, after) == before - after + 1

RemovedCount(before, after) == before - after

drop_duplicates(df) ==
    LET before  == Len(df.rows)
        cleaned == [df EXCEPT !.rows = DedupRows(df.rows)]
        removed == RemovedCount(before, Len(cleaned.rows))
    IN  <<cleaned, removed>>

-----------------------------------------------------------------------------
(* compute_missing: df.isna().sum().to_dict() and the sum of its values.   *)
(* The dict is the sequence of its items, in the order of the columns.     *)

ColumnMissing(df, j) == Cardinality({i \in 1..Len(df.rows) : isna(df.rows[i][j])})

compute_missing(df) ==
    LET missing_by_column == [j \in 1..Len(df.columns) |->
                                 <<df.columns[j], ColumnMissing(df, j)>>]
        total == SumSeq([j \in 1..Len(missing_by_column) |-> missing_by_column[j][2]])
    IN  <<total, missing_by_column>>

-----------------------------------------------------------------------------
(* save_clean_csv: df.to_csv(path, index=False).  NaN is written as the    *)
(* empty field, a string as itself; to_csv raises when the parent          *)
(* directory of path does not exist.                                       *)

FormatCell(cell) == IF isna(cell) THEN "" ELSE cell[1]

to_csv(df) ==
    [kind   |-> "csv",
     header |-> df.columns,
     rows   |-> [i \in 1..Len(df.rows) |->
                   [j \in 1..Len(df.rows[i]) |-> FormatCell(df.rows[i][j])]]]

\* io: "ok", "denied" (the open fails, the file is untouched) or "partial"
\* (the write fails after the file was opened and truncated).
IoOutcomes == {"ok", "denied", "partial"}

WriteFileAppend(path, content, D, F, io) ==
    IF Parent(path) \notin D \/ io = "denied" THEN [ok |-> FALSE, files |-> F]
    ELSE IF io = "partial" THEN [ok |-> FALSE, files |-> [F EXCEPT ![path] = PartialFile]]
    ELSE [ok    |-> TRUE,
          files |-> [F EXCEPT ![path] =
                        IF F[path].kind = content.kind /\ content.kind = "csv"
                        THEN [content EXCEPT !.rows = F[path].rows \o content.rows]
                        ELSE IF F[path].kind = content.kind /\ content.kind = "text"
                        THEN [content EXCEPT !.lines = F[path].lines \o content.lines]
                        ELSE content]]

WriteFileAnywhere(path, content, D, F, io) ==
    IF io = "denied" THEN [ok |-> FALSE, files |-> F]
    ELSE IF io = "partial" THEN [ok |-> FALSE, files |-> [F EXCEPT ![path] = PartialFile]]
    ELSE [ok |-> TRUE, files |-> [F EXCEPT ![path] = content]]

\* open(path, "w") and write: the parent directory is not created.
WriteFile(path, content, D, F, io) ==
    IF Parent(path) \notin D \/ io = "denied" THEN [ok |-> FALSE, files |-> F]
    ELSE IF io = "partial" THEN [ok |-> FALSE, files |-> [F EXCEPT ![path] = PartialFile]]
    ELSE [ok |-> TRUE, files |-> [F EXCEPT ![path] = content]]

save_clean_csv(df, path, D, F, io) == WriteFile(path, to_csv(df), D, F, io)

-----------------------------------------------------------------------------
(* write_report: the lines of the report, then path.write_text of their    *)
(* join.                                                                   *)

ItemLess(a, b) == StrLess(a[1], b[1]) \/ (a[1] = b[1] /\ a[2] < b[2])

RECURSIVE InsertItem(_, _)
InsertItem(x, s) ==
    IF s = <<>> THEN <<x>>
    ELSE IF ItemLess(x, Head(s)) THEN <<x>> \o s
         ELSE <<Head(s)>> \o InsertItem(x, Tail(s))

RECURSIVE SortItems(_)
SortItems(s) == IF s = <<>> THEN <<>> ELSE InsertItem(Head(s), SortItems(Tail(s)))

ReportItemsUnsorted(items) == items

\* sorted(summary.missing_by_column.items())
ReportItems(items) == SortItems(items)

\* f"{col:<{width}}"
LeftAlign(col, width) == col \o Spaces(width - Len(col))

ReportLines(s) ==
    LET max_name_len == Max({Len(s.missing_by_column[i][1]) :
                                 i \in 1..Len(s.missing_by_column)} \cup {0})
        items == ReportItems(s.missing_by_column)
    IN  << "=== Data Cleaning Report ===",
           "",
           "Raw shape                : " \o ToString(s.raw_rows) \o " rows x "
               \o ToString(s.raw_cols) \o " cols",
           "Duplicates removed       : " \o ToString(s.duplicate_rows_removed),
           "Cleaned shape            : " \o ToString(s.cleaned_rows) \o " rows x "
               \o ToString(s.cleaned_cols) \o " cols",
           "",
           "Total missing values     : " \o ToString(s.total_missing_values),
           "Missing values by column :" >>
        \o [i \in 1..Len(items) |->
               "  - " \o LeftAlign(items[i][1], max_name_len) \o " : "
                   \o ToString(items[i][2])]
        \o << "" >>

write_report(path, s, D, F, io) ==
    WriteFile(path, [kind |-> "text", lines |-> ReportLines(s)], D, F, io)

CleanSummary(raw_rows, raw_cols, removed, cleaned_rows, cleaned_cols, total, by_col) ==
    [built                  |-> TRUE,
     raw_rows               |-> raw_rows,
     raw_cols               |-> raw_cols,
     duplicate_rows_removed |-> removed,
     cleaned_rows           |-> cleaned_rows,
     cleaned_cols           |-> cleaned_cols,
     total_missing_values   |-> total,
     missing_by_column      |-> by_col]

-----------------------------------------------------------------------------
(* The inputs *)

HeaderMain == <<"b", "alpha">>

\* Raw cell texts of each column of the input file.
TextsB == {"B", ""}
TextsAlpha == {"A", "N/A", "n/a"}

RawRows == {<<x, y>> : x \in TextsB, y \in TextsAlpha}

RECURSIVE SeqsUpTo(_, _)
SeqsUpTo(S, n) ==
    IF n = 0 THEN {<<>>}
    ELSE LET shorter == SeqsUpTo(S, n - 1)
         IN  shorter \cup {Append(s, x) : s \in {t \in shorter : Len(t) = n - 1}, x \in S}

RawFiles == {[kind |-> "csv", header |-> HeaderMain, rows |-> r] :
                r \in SeqsUpTo(RawRows, MaxRows)}

NoFiles == [p \in Paths |-> NoFile]

InitLocals ==
    /\ df_raw = NoDf
    /\ raw_shape = <<0, 0>>
    /\ df_clean = NoDf
    /\ dup_removed = 0
    /\ total_missing = 0
    /\ missing_by_col = <<>>
    /\ summary = NoSummary

Init ==
    /\ pc = "idle"
    /\ run = 0
    /\ rawFile \in RawFiles
    /\ dirs = {}
    /\ files = NoFiles
    /\ InitLocals
    /\ trace = <<>>
    /\ failed = ""
    /\ wrote = {}
    /\ startFiles = NoFiles
    /\ outputs = <<>>
    /\ call = NoCall

-----------------------------------------------------------------------------
(* main(): one action per statement.  No statement of main is inside a     *)
(* try: an exception ends the run.                                         *)

PropagateSwallowed(ok, next) == next

\* The position after a call: the next statement, or the exit by exception.
Propagate(ok, next) == IF ok THEN next ELSE "error"

AnalyzerInputRaw(raw, clean) == raw

\* compute_missing(df_clean)
AnalyzerInput(raw, clean) == clean

MainEnsureDirectories ==
    /\ pc = "idle"
    /\ run < MaxRuns
    /\ \E n \in 0..2 :
        LET r == ensure_directories(<<PROCESSED_DIR, INFO_DIR>>, dirs, n)
        IN  /\ dirs' = r.dirs
            /\ pc' = IF r.ok THEN "ensured" ELSE "error"
            /\ failed' = IF r.ok THEN "" ELSE "ensure_directories"
    /\ run' = run + 1
    /\ trace' = <<>>
    /\ wrote' = {}
    /\ startFiles' = files
    /\ call' = NoCall
    /\ UNCHANGED <<rawFile, files, locals, outputs>>

MainLoad ==
    /\ pc = "ensured"
    /\ trace' = Append(trace, "Loader")
    /\ \E ok \in BOOLEAN :
        /\ pc' = Propagate(ok, "loaded")
        /\ failed' = IF ok THEN failed ELSE "Loader"
        /\ IF ok
           THEN /\ df_raw' = load_dataset(rawFile, EXTRA_NA_VALUES)
                /\ raw_shape' = <<Len(df_raw'.rows), Len(df_raw'.columns)>>
           ELSE UNCHANGED <<df_raw, raw_shape>>
    /\ UNCHANGED <<run, rawFile, dirs, files, df_clean, dup_removed, total_missing,
                   missing_by_col, summary, wrote, startFiles, outputs, call>>

MainDropDuplicates ==
    /\ pc = "loaded"
    /\ trace' = Append(trace, "Deduplicator")
    /\ LET r == drop_duplicates(df_raw)
       IN  /\ df_clean' = r[1]
           /\ dup_removed' = r[2]
    /\ pc' = "deduped"
    /\ UNCHANGED <<run, rawFile, dirs, files, df_raw, raw_shape, total_missing,
                   missing_by_col, summary, failed, wrote, startFiles, outputs, call>>

MainComputeMissing ==
    /\ pc = "deduped"
    /\ trace' = Append(trace, "Analyzer")
    /\ LET r == compute_missing(AnalyzerInput(df_raw, df_clean))
       IN  /\ total_missing' = r[1]
           /\ missing_by_col' = r[2]
    /\ pc' = "analyzed"
    /\ UNCHANGED <<run, rawFile, dirs, files, df_raw, raw_shape, df_clean, dup_removed,
                   summary, failed, wrote, startFiles, outputs, call>>

SaveAt(positions) ==
    /\ pc \in positions
    /\ trace' = Append(trace, "CsvPersister")
    /\ \E io \in IoOutcomes :
        LET r == save_clean_csv(df_clean, CLEAN_CSV_PATH, dirs, files, io)
        IN  /\ files' = r.files
            /\ wrote' = IF r.ok THEN wrote \cup {CLEAN_CSV_PATH} ELSE wrote
            /\ pc' = Propagate(r.ok, "saved")
            /\ failed' = IF r.ok THEN failed ELSE "CsvPersister"
    /\ UNCHANGED <<run, rawFile, dirs, locals, startFiles, outputs, call>>

MainSaveCleanCsvBeforeAnalysis == SaveAt({"deduped", "analyzed"})

MainSaveCleanCsv == SaveAt({"analyzed"})

ReportAt(positions) ==
    /\ pc \in positions
    /\ trace' = Append(trace, "ReportFormatter")
    /\ summary' = CleanSummary(raw_shape[1], raw_shape[2], dup_removed,
                               Len(df_clean.rows), Len(df_clean.columns),
                               total_missing, missing_by_col)
    /\ \E io \in IoOutcomes :
        LET r == write_report(REPORT_PATH, summary', dirs, files, io)
        IN  /\ files' = r.files
            /\ wrote' = IF r.ok THEN wrote \cup {REPORT_PATH} ELSE wrote
            /\ pc' = Propagate(r.ok, "done")
            /\ failed' = IF r.ok THEN failed ELSE "ReportFormatter"
            /\ outputs' = IF r.ok
                          THEN Append(outputs, [csv    |-> r.files[CLEAN_CSV_PATH],
                                                report |-> r.files[REPORT_PATH],
                                                found  |-> startFiles])
                          ELSE outputs
    /\ UNCHANGED <<run, rawFile, dirs, df_raw, raw_shape, df_clean, dup_removed,
                   total_missing, missing_by_col, startFiles, call>>

MainWriteReportBeforeSave == ReportAt({"analyzed", "saved"})

MainWriteReport == ReportAt({"saved"})

\* The process ends; its locals are gone.
Exit ==
    /\ pc \in {"done", "error"}
    /\ pc' = "idle"
    /\ df_raw' = NoDf
    /\ raw_shape' = <<0, 0>>
    /\ df_clean' = NoDf
    /\ dup_removed' = 0
    /\ total_missing' = 0
    /\ missing_by_col' = <<>>
    /\ summary' = NoSummary
    /\ trace' = <<>>
    /\ failed' = ""
    /\ wrote' = {}
    /\ startFiles' = NoFiles
    /\ UNCHANGED <<run, rawFile, dirs, files, outputs, call>>

\* Between two runs the user may clear the output paths.
ClearOutputs ==
    /\ pc = "idle"
    /\ files # NoFiles
    /\ files' = NoFiles
    /\ call' = NoCall
    /\ UNCHANGED <<pc, run, rawFile, dirs, locals, trace, failed, wrote, startFiles,
                   outputs>>

Next ==
    \/ MainEnsureDirectories
    \/ MainLoad
    \/ MainDropDuplicates
    \/ MainComputeMissing
    \/ MainSaveCleanCsv
    \/ MainWriteReport
    \/ Exit
    \/ ClearOutputs

Spec == Init /\ [][Next]_vars

-----------------------------------------------------------------------------
(* The functions of the module called directly by a caller, before it runs *)
(* main(): call records the call and what it returned or that it raised.   *)

Callable == pc = "idle" /\ run = 0

HeaderCalls == <<"alpha", "b">>

LoaderTexts == {"N/A", "NULL", "", " ", "n/a", "N/a", "A"}

CallFiles == {[kind |-> "csv", header |-> HeaderCalls, rows |-> <<<<x, y>>>>] :
                 x \in LoaderTexts, y \in {"B", ""}}

CallHeaders == {<<>>, <<"alpha", "b">>, <<"b", "alpha">>, <<"b", "Zeta", "ab">>}

CallSummaries ==
    UNION {{CleanSummary(2, Len(h), 1, 1, Len(h), SumSeq(c),
                         [j \in 1..Len(h) |-> <<h[j], c[j]>>]) :
               c \in [1..Len(h) -> {0, 1}]} : h \in CallHeaders}

CallEnsureDirectories ==
    /\ Callable
    /\ \E paths \in {<<PROCESSED_DIR>>, <<INFO_DIR>>, <<PROCESSED_DIR, INFO_DIR>>} :
        \E n \in 0..Len(paths) :
            LET r == ensure_directories(paths, dirs, n)
            IN  /\ dirs' = r.dirs
                /\ call' = [fn |-> "ensure_directories", paths |-> paths,
                            raised |-> ~r.ok]
    /\ UNCHANGED <<pc, run, rawFile, files, locals, trace, failed, wrote, startFiles,
                   outputs>>

CallLoadDataset ==
    /\ Callable
    /\ \E file \in CallFiles, extra_na \in {{}, EXTRA_NA_VALUES} :
        call' = [fn |-> "load_dataset", file |-> file, extra_na |-> extra_na,
                 raised |-> FALSE, result |-> load_dataset(file, extra_na)]
    /\ UNCHANGED <<pc, run, rawFile, dirs, files, locals, trace, failed, wrote,
                   startFiles, outputs>>

\* compute_missing on the DataFrame the last load_dataset returned
CallComputeMissing ==
    /\ Callable
    /\ call.fn = "load_dataset"
    /\ call' = [fn |-> "compute_missing", file |-> call.file,
                extra_na |-> call.extra_na, df |-> call.result, raised |-> FALSE,
                result |-> compute_missing(call.result)]
    /\ UNCHANGED <<pc, run, rawFile, dirs, files, locals, trace, failed, wrote,
                   startFiles, outputs>>

\* save_clean_csv of the DataFrame the last load_dataset returned
CallSaveCleanCsv ==
    /\ Callable
    /\ call.fn = "load_dataset"
    /\ \E io \in IoOutcomes :
        LET r == save_clean_csv(call.result, CLEAN_CSV_PATH, dirs, files, io)
        IN  /\ files' = r.files
            /\ call' = [fn |-> "save_clean_csv", df |-> call.result,
                        path |-> CLEAN_CSV_PATH, io |-> io,
                        parent_existed |-> Parent(CLEAN_CSV_PATH) \in dirs,
                        raised |-> ~r.ok]
    /\ UNCHANGED <<pc, run, rawFile, dirs, locals, trace, failed, wrote, startFiles,
                   outputs>>

CallWriteReport ==
    /\ Callable
    /\ \E s \in CallSummaries, io \in IoOutcomes :
        LET r == write_report(REPORT_PATH, s, dirs, files, io)
        IN  /\ files' = r.files
            /\ call' = [fn |-> "write_report", summary |-> s,
                        path |-> REPORT_PATH, io |-> io,
                        parent_existed |-> Parent(REPORT_PATH) \in dirs,
                        raised |-> ~r.ok]
    /\ UNCHANGED <<pc, run, rawFile, dirs, locals, trace, failed, wrote, startFiles,
                   outputs>>

CallNext ==
    \/ CallEnsureDirectories
    \/ CallLoadDataset
    \/ CallComputeMissing
    \/ CallSaveCleanCsv
    \/ CallWriteReport

InitCalls ==
    /\ pc = "idle"
    /\ run = 0
    /\ rawFile = [kind |-> "csv", header |-> HeaderMain,
                  rows |-> <<<<"B", "N/A">>, <<"", "A">>, <<"B", "n/a">>>>]
    /\ dirs = {}
    /\ files = NoFiles
    /\ InitLocals
    /\ trace = <<>>
    /\ failed = ""
    /\ wrote = {}
    /\ startFiles = NoFiles
    /\ outputs = <<>>
    /\ call = NoCall

SpecCalls == InitCalls /\ [][Next \/ CallNext]_vars

-----------------------------------------------------------------------------
(* Properties *)

Ran(stage) == \E i \in 1..Len(trace) : trace[i] = stage /\ failed # stage

RowSet(rows) == {rows[i] : i \in 1..Len(rows)}

\* The indices of the rows of T that equal no earlier row of T.
FirstOccurrences(T) == {i \in 1..Len(T) : \A j \in 1..(i - 1) : T[j] # T[i]}

\* The k-th smallest element of a set of numbers.
KthOf(S, k) == CHOOSE i \in S : Cardinality({j \in S : j <= i}) = k

\* C1: once drop_duplicates has returned, df_clean holds exactly the rows of
\* df_raw that equal no earlier row (NaN cells of a column being equal), in
\* their order in df_raw: no two cleaned rows are equal, every cleaned row is a
\* row of df_raw, every distinct row of df_raw survives, as its first
\* occurrence, and the survivors keep their relative order.
C1_FirstOccurrencesKept ==
    Ran("Deduplicator") =>
        LET T    == df_raw.rows
            C    == df_clean.rows
            keep == FirstOccurrences(T)
        IN  /\ df_clean.columns = df_raw.columns
            /\ Len(C) = Cardinality(keep)
            /\ \A k \in 1..Len(C) : C[k] = T[KthOf(keep, k)]
            /\ \A a, b \in 1..Len(C) : a # b => C[a] # C[b]
            /\ RowSet(C) = RowSet(T)
            /\ \A a, b \in 1..Len(C) :
                 a < b => \E i, j \in 1..Len(T) :
                              /\ i < j
                              /\ T[i] = C[a]
                              /\ T[j] = C[b]
                              /\ \A h \in 1..(i - 1) : T[h] # C[a]
                              /\ \A h \in 1..(j - 1) : T[h] # C[b]

\* A table X, Y, X whose row X has a missing cell, read from two different
\* raw texts, has been deduplicated to X, Y.
C1_Witness ==
    /\ Ran("Deduplicator")
    /\ Len(df_raw.rows) = 3
    /\ df_raw.rows[1] = df_raw.rows[3]
    /\ df_raw.rows[1] # df_raw.rows[2]
    /\ rawFile.rows[1] # rawFile.rows[3]
    /\ isna(df_raw.rows[1][2])
    /\ df_clean.rows = <<df_raw.rows[1], df_raw.rows[2]>>

\* C2: in the CleanSummary main builds, cleaned_rows + duplicate_rows_removed
\* = raw_rows, and duplicate_rows_removed is the number of rows of the raw
\* table that equal an earlier row, which is not negative.
C2_RowCountsAddUp ==
    summary.built =>
        /\ summary.cleaned_rows + summary.duplicate_rows_removed = summary.raw_rows
        /\ summary.duplicate_rows_removed >= 0
        /\ summary.raw_rows = Len(rawFile.rows)
        /\ summary.cleaned_rows = Len(df_clean.rows)
        /\ summary.duplicate_rows_removed =
              Cardinality({i \in 1..Len(df_raw.rows) :
                              \E j \in 1..(i - 1) : df_raw.rows[j] = df_raw.rows[i]})

C2_Witness ==
    /\ pc = "done"
    /\ summary.built
    /\ summary.raw_rows = 3
    /\ summary.duplicate_rows_removed = 2
    /\ summary.cleaned_rows = 1

\* C3: in the CleanSummary main builds, missing_by_column has one item per
\* column, whose count is the number of rows of the cleaned table (equally:
\* of distinct rows of the raw table) that are missing in that column, and
\* total_missing_values is the sum of the counts.
C3_MissingCountedOnCleaned ==
    summary.built =>
        LET m == summary.missing_by_column
        IN  /\ Len(m) = Len(df_clean.columns)
            /\ \A j \in 1..Len(m) :
                 /\ m[j][1] = df_clean.columns[j]
                 /\ m[j][2] = Cardinality({i \in 1..Len(df_clean.rows) :
                                               df_clean.rows[i][j] = NaN})
                 /\ m[j][2] = Cardinality({r \in RowSet(df_raw.rows) : r[j] = NaN})
            /\ summary.total_missing_values = SumSeq([j \in 1..Len(m) |-> m[j][2]])

\* The raw table has more missing cells in a column than the cleaned one.
C3_Witness ==
    /\ summary.built
    /\ \E j \in 1..Len(df_raw.columns) :
         /\ summary.missing_by_column[j][2] = 1
         /\ Cardinality({i \in 1..Len(df_raw.rows) : df_raw.rows[i][j] = NaN}) = 2

\* The loader as main configures it has just been called directly.
LoadedWithExtra ==
    /\ call.fn \in {"load_dataset", "compute_missing"}
    /\ call.extra_na = EXTRA_NA_VALUES

LoadedCell == IF call.fn = "load_dataset" THEN call.result.rows[1][1]
              ELSE call.df.rows[1][1]

\* C4 as stated: a cell whose raw text is "N/A", "NULL", "" or " " is loaded
\* as the missing marker and counted as missing, and a cell whose raw text is
\* "n/a" is loaded as a value and not counted.
C4_Original ==
    LoadedWithExtra =>
        LET text == call.file.rows[1][1]
        IN  /\ text \in {"N/A", "NULL", "", " "} =>
                 /\ isna(LoadedCell)
                 /\ call.fn = "compute_missing" => call.result[2][1] = <<"alpha", 1>>
            /\ text = "n/a" =>
                 /\ ~isna(LoadedCell)
                 /\ call.fn = "compute_missing" => call.result[2][1] = <<"alpha", 0>>

\* C4 (amended): tokens are matched exactly against the extra tokens and
\* the defaults of pandas: a cell whose raw text is "N/A", "NULL", "", " " or
\* "n/a" (a default of pandas) is loaded as the missing marker and counted as
\* missing; a cell whose raw text is "N/a" or "A", in neither list, is loaded
\* as that string and not counted.
C4_ExactMatchWithDefaults ==
    LoadedWithExtra =>
        LET text == call.file.rows[1][1]
        IN  /\ text \in {"N/A", "NULL", "", " ", "n/a"} =>
                 /\ isna(LoadedCell)
                 /\ call.fn = "compute_missing" => call.result[2][1] = <<"alpha", 1>>
            /\ text \in {"N/a", "A"} =>
                 /\ LoadedCell = Str(text)
                 /\ call.fn = "compute_missing" => call.result[2][1] = <<"alpha", 0>>

\* The cell "n/a" has been loaded and counted as missing.
C4_Witness ==
    /\ call.fn = "compute_missing"
    /\ call.extra_na = EXTRA_NA_VALUES
    /\ call.file.rows[1] = <<"n/a", "B">>
    /\ isna(call.df.rows[1][1])
    /\ call.result = <<1, <<<<"alpha", 1>>, <<"b", 0>>>>>>

Stages == <<"Loader", "Deduplicator", "Analyzer", "CsvPersister", "ReportFormatter">>

IsPrefix(s, t) == Len(s) <= Len(t) /\ \A i \in 1..Len(s) : s[i] = t[i]

\* C5: a run of main that succeeds has invoked the Loader, the Deduplicator,
\* the Analyzer, the CSV persister and the Report formatter once each, in
\* that order; at every moment the stages a run has invoked are the first
\* ones of that order, so no stage runs again after a later one started.
C5_StagesOnceInOrder ==
    /\ IsPrefix(trace, Stages)
    /\ pc = "done" => trace = Stages
    /\ pc = "saved" => trace = SubSeq(Stages, 1, 4)
    /\ pc = "analyzed" => trace = SubSeq(Stages, 1, 3)
    /\ pc = "deduped" => trace = SubSeq(Stages, 1, 2)
    /\ pc = "loaded" => trace = SubSeq(Stages, 1, 1)

\* The third run of main has succeeded.
C5_Witness == pc = "done" /\ run = 3 /\ trace = Stages /\ failed = ""

\* C6: a run in which a stage raised is in the error state and the failed
\* stage is the last one it invoked; a Loader failure leaves the output files
\* as the run found them and a CSV-persister failure leaves the report as the
\* run found it; from the error state the process only exits: no stage runs,
\* no file and no directory changes.
C6_FailureEndsTheRun ==
    /\ [](/\ failed # "" => pc = "error"
          /\ pc = "error" =>
               /\ failed # ""
               /\ failed # "ensure_directories" =>
                    trace # <<>> /\ trace[Len(trace)] = failed
               /\ failed = "ensure_directories" => trace = <<>> /\ wrote = {}
          /\ failed = "Loader" => wrote = {} /\ files = startFiles
          /\ failed = "CsvPersister" =>
               /\ wrote = {}
               /\ files[REPORT_PATH] = startFiles[REPORT_PATH])
    /\ [][pc = "error" =>
             /\ pc' = "idle"
             /\ files' = files
             /\ dirs' = dirs
             /\ outputs' = outputs]_vars

\* The Loader of a second run raised, and the outputs of the first run are
\* as they were.
C6_Witness ==
    /\ pc = "error"
    /\ failed = "Loader"
    /\ run = 2
    /\ Len(outputs) = 1
    /\ files = [p \in Paths |-> IF p = CLEAN_CSV_PATH THEN outputs[1].csv
                                ELSE outputs[1].report]

\* C7: no run writes the report without having written the cleaned CSV, and
\* a run whose report write raised leaves the cleaned CSV it wrote in place.
\* (The state of the witness is reachable: CSV written, report write failed.)
C7_NoReportWithoutCsv ==
    /\ REPORT_PATH \in wrote => CLEAN_CSV_PATH \in wrote
    /\ failed = "ReportFormatter" =>
         /\ pc = "error"
         /\ wrote = {CLEAN_CSV_PATH}
         /\ files[CLEAN_CSV_PATH] = to_csv(df_clean)
    /\ pc = "done" => wrote = Paths

\* The cleaned CSV of a table with a duplicate is written, the report write
\* raised and there is no report.
C7_Witness ==
    /\ pc = "error"
    /\ failed = "ReportFormatter"
    /\ wrote = {CLEAN_CSV_PATH}
    /\ dup_removed = 1
    /\ files[CLEAN_CSV_PATH] = to_csv(df_clean)
    /\ files[REPORT_PATH] = NoFile

\* A component has just been called directly.
ComponentCalled == call.fn \in {"save_clean_csv", "write_report"}

WrittenBy(c) == IF c.fn = "save_clean_csv" THEN to_csv(c.df)
                ELSE [kind |-> "text", lines |-> ReportLines(c.summary)]

\* C8 as stated: a component invoked with a destination whose parent
\* directory does not exist creates the directory and writes its file.
C8_Original ==
    (ComponentCalled /\ ~call.parent_existed /\ call.io = "ok") =>
        /\ Parent(call.path) \in dirs
        /\ files[call.path] = WrittenBy(call)

\* C8 (amended): save_clean_csv and write_report create no directory:
\* invoked with a destination whose parent directory does not exist they
\* raise, and neither the directory nor the file exists afterwards; invoked
\* with an existing parent directory, and no I/O error, they write their
\* file.  The parent directories are created by ensure_directories, which
\* main calls before any stage, so that in main both exist whenever a stage
\* runs, and a file exists only in an existing directory.
C8_DirectoriesFromEnsure ==
    /\ (ComponentCalled /\ ~call.parent_existed) =>
         /\ call.raised
         /\ Parent(call.path) \notin dirs
         /\ files[call.path] = NoFile
    /\ (ComponentCalled /\ call.parent_existed /\ call.io = "ok") =>
         /\ ~call.raised
         /\ files[call.path] = WrittenBy(call)
    /\ (call.fn = "ensure_directories" /\ ~call.raised) =>
         \A i \in 1..Len(call.paths) : call.paths[i] \in dirs
    /\ pc \in {"ensured", "loaded", "deduped", "analyzed", "saved", "done"} =>
         {PROCESSED_DIR, INFO_DIR} \subseteq dirs
    /\ (pc = "error" /\ failed # "ensure_directories") =>
         {PROCESSED_DIR, INFO_DIR} \subseteq dirs
    /\ \A p \in wrote : files[p] # NoFile
    /\ \A p \in Paths : files[p] # NoFile => Parent(p) \in dirs

\* write_report was called while info/ did not exist, with no I/O error: it
\* raised, and there is neither a directory nor a report.
C8_Witness ==
    /\ call.fn = "write_report"
    /\ ~call.parent_existed
    /\ call.io = "ok"
    /\ call.raised
    /\ INFO_DIR \notin dirs
    /\ files[REPORT_PATH] = NoFile

\* C9: every successful run of main on the same raw input leaves the same
\* cleaned CSV and the same report, whatever the output paths held when the
\* run started.
C9_RunsAgree ==
    /\ \A i, j \in 1..Len(outputs) :
         /\ outputs[i].csv = outputs[j].csv
         /\ outputs[i].report = outputs[j].report
    /\ pc = "done" =>
         /\ outputs # <<>>
         /\ files[CLEAN_CSV_PATH] = outputs[1].csv
         /\ files[REPORT_PATH] = outputs[1].report
         /\ files[CLEAN_CSV_PATH].kind = "csv"
         /\ files[REPORT_PATH].kind = "text"

\* Three runs succeeded on a table with a duplicate: the second found the
\* output paths cleared, the third found the outputs of the second.
C9_Witness ==
    /\ pc = "done"
    /\ Len(outputs) = 3
    /\ dup_removed = 1
    /\ outputs[1].found = NoFiles
    /\ outputs[2].found = NoFiles
    /\ outputs[3].found[CLEAN_CSV_PATH] = outputs[2].csv
    /\ outputs[3].found[REPORT_PATH] = outputs[2].report

\* The report of a direct call of write_report that did not raise.
ReportWritten == call.fn = "write_report" /\ ~call.raised

====
